---- MODULE Spec2Model ----
(***************************************************************************)
(* Model of meilies/src/command.rs: extraction of a flat argument list     *)
(* from a RESP value (arguments_from_resp_value) and the parsing of that   *)
(* argument list into a typed command (Command::from_args).                *)
(*                                                                         *)
(* Bytes are integers 0..255, a buffer (Vec<u8>) is a sequence of bytes,   *)
(* a String is a buffer that passed UTF-8 validation.  An i64 is kept in   *)
(* sign-magnitude decimal form [neg, mag] (mag: digits without leading     *)
(* zeros), the 64-bit width being the comparison of mag against the        *)
(* digits of 2^63-1 and 2^63.                                              *)
(***************************************************************************)
EXTENDS Integers, Sequences, FiniteSets, TLC

VARIABLES value, args, result, pc

vars == <<value, args, result, pc>>

(***************************************************************************)
(* Bounds of the input space.                                              *)
(***************************************************************************)
\* longest buffer enumerated exhaustively over Alphabet
MaxLen == 3
\* largest number of arguments following the command name
MaxArgs == 3

(***************************************************************************)
(* Byte constants.                                                         *)
(***************************************************************************)
COLON == 58
PLUS == 43
MINUS == 45
ZERO == 48

\* "publish" and "subscribe" as bytes
STR_publish == <<112, 117, 98, 108, 105, 115, 104>>
STR_subscribe == <<115, 117, 98, 115, 99, 114, 105, 98, 101>>

(***************************************************************************)
(* str::from_utf8 / String::from_utf8: UTF-8 validation.                   *)
(***************************************************************************)
IsCont(b, i) == i <= Len(b) /\ b[i] >= 128 /\ b[i] <= 191

InRange(b, i, lo, hi) == i <= Len(b) /\ b[i] >= lo /\ b[i] <= hi

\* width of the well-formed UTF-8 sequence starting at index i, 0 if none
Utf8Width(b, i) ==
    LET c == b[i] IN
    IF c < 128 THEN 1
    ELSE IF c >= 194 /\ c <= 223
         THEN IF IsCont(b, i + 1) THEN 2 ELSE 0
    ELSE IF c = 224
         THEN IF InRange(b, i + 1, 160, 191) /\ IsCont(b, i + 2) THEN 3 ELSE 0
    ELSE IF (c >= 225 /\ c <= 236) \/ c = 238 \/ c = 239
         THEN IF IsCont(b, i + 1) /\ IsCont(b, i + 2) THEN 3 ELSE 0
    ELSE IF c = 237
         THEN IF InRange(b, i + 1, 128, 159) /\ IsCont(b, i + 2) THEN 3 ELSE 0
    ELSE IF c = 240
         THEN IF InRange(b, i + 1, 144, 191) /\ IsCont(b, i + 2) /\ IsCont(b, i + 3)
              THEN 4 ELSE 0
    ELSE IF c >= 241 /\ c <= 243
         THEN IF IsCont(b, i + 1) /\ IsCont(b, i + 2) /\ IsCont(b, i + 3)
              THEN 4 ELSE 0
    ELSE IF c = 244
         THEN IF InRange(b, i + 1, 128, 143) /\ IsCont(b, i + 2) /\ IsCont(b, i + 3)
              THEN 4 ELSE 0
    ELSE 0

RECURSIVE Utf8Scan(_, _)
\* number of leading bytes of b that are valid UTF-8 (Utf8Error::valid_up_to)
Utf8Scan(b, i) ==
    IF i > Len(b) THEN Len(b)
    ELSE LET w == Utf8Width(b, i) IN
         IF w = 0 THEN i - 1 ELSE Utf8Scan(b, i + w)

from_utf8(b) ==
    LET n == Utf8Scan(b, 1) IN
    IF n = Len(b) THEN [ok |-> TRUE, valid_up_to |-> n]
    ELSE [ok |-> FALSE, valid_up_to |-> n]

(***************************************************************************)
(* str::to_lowercase on a valid UTF-8 string, at the byte level: ASCII     *)
(* upper-case letters, and the two non-ASCII characters whose lower case   *)
(* contains an ASCII letter (U+0130 -> "i" U+0307, U+212A -> "k").         *)
(* Every other non-ASCII character is left as it is: its lower case has no *)
(* ASCII byte, so the comparison with the command names is not affected.   *)
(***************************************************************************)
LowerByte(c) == IF c >= 65 /\ c <= 90 THEN c + 32 ELSE c

RECURSIVE LowerFrom(_, _)
LowerFrom(s, i) ==
    IF i > Len(s) THEN <<>>
    ELSE IF i + 1 <= Len(s) /\ s[i] = 196 /\ s[i + 1] = 176
         THEN <<105, 204, 135>> \o LowerFrom(s, i + 2)
    ELSE IF i + 2 <= Len(s) /\ s[i] = 226 /\ s[i + 1] = 132 /\ s[i + 2] = 170
         THEN <<107>> \o LowerFrom(s, i + 3)
    ELSE <<LowerByte(s[i])>> \o LowerFrom(s, i + 1)

\* faulty variant: the command name is dispatched on as it was sent
to_lowercase_kept_case(s) == s

to_lowercase(s) == LowerFrom(s, 1)

(***************************************************************************)
(* i64 values and i64::from_str_radix(src, 10).                            *)
(***************************************************************************)
I64MaxMag == <<9, 2, 2, 3, 3, 7, 2, 0, 3, 6, 8, 5, 4, 7, 7, 5, 8, 0, 7>>
I64MinMag == <<9, 2, 2, 3, 3, 7, 2, 0, 3, 6, 8, 5, 4, 7, 7, 5, 8, 0, 8>>

I64(neg, mag) == [neg |-> neg, mag |-> mag]

\* the literal -1 of the no-colon arm
TailSentinel == I64(TRUE, <<1>>)

IsDigit(c) == c >= 48 /\ c <= 57

RECURSIVE StripZeros(_)
StripZeros(d) ==
    IF Len(d) > 1 /\ d[1] = 0 THEN StripZeros(Tail(d)) ELSE d

RECURSIVE LexLE(_, _, _)
\* a[i..] <= b[i..] digit by digit, for Len(a) = Len(b)
LexLE(a, b, i) ==
    IF i > Len(a) THEN TRUE
    ELSE IF a[i] < b[i] THEN TRUE
    ELSE IF a[i] > b[i] THEN FALSE
    ELSE LexLE(a, b, i + 1)

\* magnitude comparison of two digit strings without leading zeros
MagLE(a, b) ==
    \/ Len(a) < Len(b)
    \/ Len(a) = Len(b) /\ LexLE(a, b, 1)

RECURSIVE DigitPrefixLen(_, _)
\* number of leading ASCII digits of s from index i on
DigitPrefixLen(s, i) ==
    IF i <= Len(s) /\ IsDigit(s[i]) THEN 1 + DigitPrefixLen(s, i + 1) ELSE 0

ParseErr(kind) == [ok |-> FALSE, kind |-> kind]

from_str_radix(src) ==
    IF src = <<>> THEN ParseErr("Empty")
    ELSE IF src = <<PLUS>> \/ src = <<MINUS>> THEN ParseErr("InvalidDigit")
    ELSE
      LET neg    == src[1] = MINUS
          digits == IF src[1] = PLUS \/ src[1] = MINUS THEN Tail(src) ELSE src
          n      == DigitPrefixLen(digits, 1)
          mag    == StripZeros([i \in 1..n |-> digits[i] - ZERO])
          limit  == IF neg THEN I64MinMag ELSE I64MaxMag
      IN
      IF n > 0 /\ ~MagLE(mag, limit)
      THEN ParseErr(IF neg THEN "NegOverflow" ELSE "PosOverflow")
      ELSE IF n < Len(digits) THEN ParseErr("InvalidDigit")
      ELSE [ok |-> TRUE, val |-> I64(neg /\ mag # <<0>>, mag)]

(***************************************************************************)
(* Option, Command, CommandError and the results of from_args.             *)
(***************************************************************************)
Some(x) == [some |-> TRUE, val |-> x]
None == [some |-> FALSE]

Publish(stream, event) == [type |-> "Publish", stream |-> stream, event |-> event]
Subscribe(stream, from) == [type |-> "Subscribe", stream |-> stream, from |-> from]

CommandNotFound == [name |-> "CommandNotFound"]
MissingCommandName == [name |-> "MissingCommandName"]
InvalidNumberOfArguments(expected) ==
    [name |-> "InvalidNumberOfArguments", expected |-> expected]
\* From<Utf8Error> / From<FromUtf8Error>: the error keeps the Utf8Error
InvalidUtf8String(error) ==
    [name |-> "InvalidUtf8String", valid_up_to |-> error.valid_up_to]

Ok(cmd) == [kind |-> "Ok", cmd |-> cmd]
Err(error) == [kind |-> "Err", error |-> error]
\* Result::unwrap on Err(ParseIntError): the thread panics, nothing is returned
Panic(error) == [kind |-> "Panic", cause |-> error.kind]

(***************************************************************************)
(* Vec<u8> operations used by the subscribe arm (offsets are 0-based).     *)
(***************************************************************************)
RECURSIVE PositionFrom(_, _, _)
PositionFrom(v, c, i) ==
    IF i > Len(v) THEN None
    ELSE IF v[i] = c THEN Some(i - 1)
    ELSE PositionFrom(v, c, i + 1)

RECURSIVE RPositionFrom(_, _, _)
RPositionFrom(v, c, i) ==
    IF i < 1 THEN None
    ELSE IF v[i] = c THEN Some(i - 1)
    ELSE RPositionFrom(v, c, i - 1)

\* faulty variant: rposition, the last colon is the delimiter
position_last(v) == RPositionFrom(v, COLON, Len(v))

\* stream.iter().position(|c| *c == b':')
position(v) == PositionFrom(v, COLON, 1)

\* faulty variant: off by one, the tail keeps the byte before at
split_off_early(v, at) == SubSeq(v, at, Len(v))

\* Vec::split_off(at): the returned tail [at, len)
split_off(v, at) == SubSeq(v, at + 1, Len(v))

\* Vec::split_off(at): what is left in the vector, [0, at)
split_off_rest(v, at) == SubSeq(v, 1, at)

\* Vec::pop: the vector without its last element
pop(v) == SubSeq(v, 1, Len(v) - 1)

(***************************************************************************)
(* Command::from_args.                                                     *)
(***************************************************************************)
\* faulty variant: the offset is parsed and unwrapped before the stream name is checked
subscribe_at_offset_first(target, colon_offset) ==
    LET from   == split_off(target, colon_offset + 1)
        stream == pop(split_off_rest(target, colon_offset + 1))
        s      == from_utf8(stream)
        f      == from_utf8(from)
        n      == from_str_radix(from)
    IN
    IF ~f.ok THEN Err(InvalidUtf8String(f))
    ELSE IF ~n.ok THEN Panic(n)
    ELSE IF ~s.ok THEN Err(InvalidUtf8String(s))
    ELSE Ok(Subscribe(stream, n.val))

\* Some(colon_offset) arm of the subscribe target
subscribe_at(target, colon_offset) ==
    LET from   == split_off(target, colon_offset + 1)
        stream == pop(split_off_rest(target, colon_offset + 1))
        s      == from_utf8(stream)
        f      == from_utf8(from)
        n      == from_str_radix(from)
    IN
    IF ~s.ok THEN Err(InvalidUtf8String(s))
    ELSE IF ~f.ok THEN Err(InvalidUtf8String(f))
    ELSE IF ~n.ok THEN Panic(n)
    ELSE Ok(Subscribe(stream, n.val))

\* faulty variant: a target without offset subscribes from offset 0
subscribe_tail_zero(target) ==
    LET s == from_utf8(target) IN
    IF ~s.ok THEN Err(InvalidUtf8String(s))
    ELSE Ok(Subscribe(target, I64(FALSE, <<0>>)))

\* None arm of the subscribe target
subscribe_tail(target) ==
    LET s == from_utf8(target) IN
    IF ~s.ok THEN Err(InvalidUtf8String(s))
    ELSE Ok(Subscribe(target, TailSentinel))

\* faulty variant: the arity error of subscribe names the one argument it takes
subscribe_arm_expected_one(rest) ==
    IF Len(rest) = 1
    THEN LET p == position(rest[1]) IN
         IF p.some THEN subscribe_at(rest[1], p.val) ELSE subscribe_tail(rest[1])
    ELSE Err(InvalidNumberOfArguments(1))

\* "subscribe" arm: rest are the arguments after the command name
subscribe_arm(rest) ==
    IF Len(rest) = 1
    THEN LET p == position(rest[1]) IN
         IF p.some THEN subscribe_at(rest[1], p.val) ELSE subscribe_tail(rest[1])
    ELSE Err(InvalidNumberOfArguments(2))

\* faulty variant: the event is decoded as text like the stream name
publish_arm_text_event(rest) ==
    IF Len(rest) = 2
    THEN LET s == from_utf8(rest[1])
             e == from_utf8(rest[2]) IN
         IF ~s.ok THEN Err(InvalidUtf8String(s))
         ELSE IF ~e.ok THEN Err(InvalidUtf8String(e))
         ELSE Ok(Publish(rest[1], rest[2]))
    ELSE Err(InvalidNumberOfArguments(2))

\* "publish" arm
publish_arm(rest) ==
    IF Len(rest) = 2
    THEN LET s == from_utf8(rest[1]) IN
         IF ~s.ok THEN Err(InvalidUtf8String(s))
         ELSE Ok(Publish(rest[1], rest[2]))
    ELSE Err(InvalidNumberOfArguments(2))

\* the dispatch on the lowercased command name
dispatch(command, rest) ==
    IF command = STR_publish THEN publish_arm(rest)
    ELSE IF command = STR_subscribe THEN subscribe_arm(rest)
    ELSE Err(CommandNotFound)

from_args(a) ==
    IF a = <<>> THEN Err(MissingCommandName)
    ELSE LET c == from_utf8(a[1]) IN
         IF ~c.ok THEN Err(InvalidUtf8String(c))
         ELSE dispatch(to_lowercase(a[1]), Tail(a))

(***************************************************************************)
(* RespValue and arguments_from_resp_value.                                *)
(***************************************************************************)
Array(opt) == [kind |-> "Array", opt |-> opt]
BulkString(opt) == [kind |-> "BulkString", opt |-> opt]
Integer(n) == [kind |-> "Integer", opt |-> Some(<<n>>)]
SimpleString(s) == [kind |-> "SimpleString", opt |-> Some(s)]
Error(s) == [kind |-> "Error", opt |-> Some(s)]

RECURSIVE collect_skipping(_, _, _)
\* faulty variant: an element that is no bulk string is skipped
collect_skipping(array, i, acc) ==
    IF i > Len(array) THEN [ok |-> TRUE, args |-> acc]
    ELSE IF array[i].kind = "BulkString" /\ array[i].opt.some
         THEN collect_skipping(array, i + 1, Append(acc, array[i].opt.val))
         ELSE collect_skipping(array, i + 1, acc)

RECURSIVE collect(_, _, _)
\* the for loop over the array: acc is the args vector built so far
collect(array, i, acc) ==
    IF i > Len(array) THEN [ok |-> TRUE, args |-> acc]
    ELSE IF array[i].kind = "BulkString" /\ array[i].opt.some
         THEN collect(array, i + 1, Append(acc, array[i].opt.val))
         ELSE [ok |-> FALSE]

arguments_from_resp_value(v) ==
    IF v.kind = "Array" /\ v.opt.some THEN collect(v.opt.val, 1, <<>>)
    ELSE [ok |-> FALSE]

(***************************************************************************)
(* The inputs: RESP values a client can send.                              *)
(***************************************************************************)
\* 'a', ':', '0', '1', '-', and a byte that is never valid in UTF-8
Alphabet == {97, 58, 48, 49, 45, 255}

Bufs(n) == UNION {[1..k -> Alphabet] : k \in 0..n}

\* the decimal digits of 2^63-1 and of 2^63 as text
I64MaxText == [i \in 1..Len(I64MaxMag) |-> I64MaxMag[i] + ZERO]
I64MinText == [i \in 1..Len(I64MinMag) |-> I64MinMag[i] + ZERO]

\* targets outside the exhaustive enumeration: signs, other digits, leading
\* zeros, multi-byte text, several colons, the ends of the i64 range
SpecialBufs ==
    { <<97, 58, 43, 49>>, <<97, 58, 45, 53>>, <<97, 58, 52, 50>>,
      <<97, 58, 48, 48, 55>>, <<97, 58, 45, 48>>, <<97, 58, 43>>,
      <<97, 58, 49, 58, 49>>, <<97, 58, 98, 58, 53>>, <<58, 97, 58, 49, 48>>,
      <<195, 169>>, <<195>>, <<195, 169, 58, 49>>, <<97, 58, 195, 169>>,
      <<97, 195, 58, 49>>, <<97, 58, 49, 195>>, <<97, 58, 32, 49>>,
      <<111, 114, 100, 101, 114, 115, 58>>,
      <<111, 114, 100, 101, 114, 115, 58, 52, 50>>,
      <<115, 58>> \o I64MaxText, <<115, 58>> \o I64MinText,
      <<115, 58, 45>> \o I64MinText, <<115, 58, 45>> \o I64MaxText,
      <<115, 58, 45>> \o Append(SubSeq(I64MinText, 1, 18), 57),
      <<115, 58, 48>> \o I64MaxText, <<115, 58, 49>> \o I64MaxText }

TargetBufs == Bufs(MaxLen) \cup SpecialBufs

\* second arguments (the event of a publish)
EventBufs == {<<>>, <<97>>, <<58>>, <<255>>, <<104, 105>>, <<0, 159, 146>>}

\* arguments from the third on
ExtraBufs == {<<97>>, <<255>>}

ArgChoices(i) ==
    IF i = 1 THEN TargetBufs ELSE IF i = 2 THEN EventBufs ELSE ExtraBufs

RECURSIVE RestsOfLen(_)
RestsOfLen(k) ==
    IF k = 0 THEN {<<>>}
    ELSE {Append(r, b) : r \in RestsOfLen(k - 1), b \in ArgChoices(k)}

\* the arguments after the command name
Rests == UNION {RestsOfLen(k) : k \in 0..MaxArgs}

SmallRests ==
    { <<>>, <<<<97>>>>, <<<<97, 58, 49>>>>, <<<<97, 58>>>>, <<<<255>>>>,
      <<<<255, 58, 97>>>>, <<<<97, 58, 45, 53>>>>,
      <<<<97>>, <<97>>>>, <<<<97>>, <<255>>>>, <<<<255>>, <<255>>>>,
      <<<<97>>, <<97>>, <<97>>>>, <<<<255>>, <<255>>, <<255>>>> }

\* every upper/lower-case spelling of an all-lower-case ASCII word
CaseVariants(word) ==
    { [i \in 1..Len(word) |-> word[i] - 32 * m[i]] :
        m \in [1..Len(word) -> {0, 1}] }

\* names that are no spelling of a command, or are not text
OtherNames ==
    { <<>>, <<255>>, <<103, 101, 116>>, <<112, 117, 98, 108, 105, 115>>,
      STR_publish \o <<115>>, <<112, 117, 98, 108, 196, 176, 115, 104>>,
      STR_subscribe \o <<255>>, <<80, 85, 66, 76, 73, 83, 72, 195>>,
      <<58>>, <<112, 117, 98, 58, 49>> }

ArgsInputs ==
    {<<>>}
    \cup {<<n>> \o r : n \in {STR_publish, STR_subscribe}, r \in Rests}
    \cup {<<n>> \o r : n \in CaseVariants(STR_publish)
                          \cup CaseVariants(STR_subscribe) \cup OtherNames,
                       r \in SmallRests}

ArrayOf(a) == Array(Some([i \in 1..Len(a) |-> BulkString(Some(a[i]))]))

\* elements that are not BulkString(Some(_))
BadElements ==
    { BulkString(None), Array(None), Array(Some(<<>>)),
      Array(Some(<<BulkString(Some(<<97>>))>>)), Integer(1),
      SimpleString(STR_publish), Error(<<97>>) }

\* values extraction must refuse: a top level that is no array, or an array
\* one of whose elements is no bulk string
BadValues ==
    { Array(None), BulkString(None), BulkString(Some(STR_publish)),
      Integer(1), SimpleString(STR_publish), Error(<<97>>) }
    \cup UNION { { Array(Some([ArrayOf(a).opt.val EXCEPT ![i] = e])) :
                     i \in 1..Len(a), e \in BadElements } :
                 a \in {<<STR_subscribe>> \o r : r \in SmallRests} }

Values == {ArrayOf(a) : a \in ArgsInputs} \cup BadValues

(***************************************************************************)
(* The state machine: one request is received, its arguments extracted,    *)
(* and the arguments parsed.                                               *)
(***************************************************************************)
Init ==
    /\ value \in Values
    /\ args = <<>>
    /\ result = [kind |-> "None"]
    /\ pc = "recv"

ExtractArgs ==
    /\ pc = "recv"
    /\ LET r == arguments_from_resp_value(value) IN
       IF r.ok
       THEN /\ args' = r.args
            /\ result' = result
            /\ pc' = "parse"
       ELSE /\ args' = args
            /\ result' = [kind |-> "DecodeError"]
            /\ pc' = "decode_error"
    /\ UNCHANGED value

ParseCommand ==
    /\ pc = "parse"
    /\ result' = from_args(args)
    /\ pc' = "done"
    /\ UNCHANGED <<value, args>>

Next == ExtractArgs \/ ParseCommand

Spec == Init /\ [][Next]_vars

(***************************************************************************)
(* Vocabulary of the properties.                                           *)
(***************************************************************************)
Parsed == pc = "done"

\* b is an upper/lower/mixed-case spelling of the lower-case word
IsSpelling(word, b) ==
    /\ Len(b) = Len(word)
    /\ \A i \in 1..Len(word) : b[i] = word[i] \/ b[i] = word[i] - 32

IsCommandName(b) == IsSpelling(STR_publish, b) \/ IsSpelling(STR_subscribe, b)

HasColon(b) == \E i \in 1..Len(b) : b[i] = COLON

\* index of the first colon of b (b has one)
FirstColon(b) ==
    CHOOSE k \in 1..Len(b) : b[k] = COLON /\ \A j \in 1..(k - 1) : b[j] # COLON

Before(b, k) == SubSeq(b, 1, k - 1)
After(b, k) == SubSeq(b, k + 1, Len(b))

IsText(b) == from_utf8(b).ok

AllDigits(t) == \A i \in 1..Len(t) : IsDigit(t[i])

DigitValues(t) == [i \in 1..Len(t) |-> t[i] - ZERO]

\* i64::to_string of a non-negative value
DecimalText(v) == [i \in 1..Len(v.mag) |-> v.mag[i] + ZERO]

\* t is the decimal text (to_string) of some i64 >= 0
IsDecimalOfNonNegative(t) ==
    /\ Len(t) >= 1
    /\ AllDigits(t)
    /\ Len(t) = 1 \/ t[1] # ZERO
    /\ MagLE(DigitValues(t), I64MaxMag)

\* the text t, an optional sign and digits, is a base-10 numeral of value v
Denotes(t, v) ==
    \E s \in {0, 1} :
       /\ Len(t) > s
       /\ s = 1 => t[1] \in {PLUS, MINUS}
       /\ AllDigits(SubSeq(t, s + 1, Len(t)))
       /\ v.mag = StripZeros(DigitValues(SubSeq(t, s + 1, Len(t))))
       /\ v.neg = (t[1] = MINUS /\ v.mag # <<0>>)

IsSubscribeOk == result.kind = "Ok" /\ result.cmd.type = "Subscribe"

(***************************************************************************)
(* C1: Command::from_args is total: for every argument sequence it returns *)
(* a Command or a CommandError and never aborts, also when the offset text *)
(* of a subscribe target is no base-10 i64.                                *)
(***************************************************************************)
C1_FromArgsTotal == Parsed => result.kind \in {"Ok", "Err"}

(***************************************************************************)
(* C2: whenever from_args returns Subscribe{stream, from}, from is         *)
(* non-negative or exactly -1.                                             *)
(***************************************************************************)
C2_FromNonNegativeOrSentinel ==
    (Parsed /\ IsSubscribeOk) =>
        (~result.cmd.from.neg \/ result.cmd.from = I64(TRUE, <<1>>))

(***************************************************************************)
(* C3 as stated: for every Subscribe{stream, from} with stream valid text  *)
(* and from >= 0, parsing ["subscribe", stream ":" text(from)] returns     *)
(* Ok(Subscribe{stream, from}): every colon of the target is a possible    *)
(* end of stream.                                                          *)
(***************************************************************************)
C3_RoundTripAnyStream ==
    (Parsed /\ Len(args) = 2 /\ args[1] = STR_subscribe) =>
        \A k \in 1..Len(args[2]) :
            ( /\ args[2][k] = COLON
              /\ IsText(Before(args[2], k))
              /\ IsDecimalOfNonNegative(After(args[2], k)) )
            => result = Ok(Subscribe(Before(args[2], k),
                                     I64(FALSE, DigitValues(After(args[2], k)))))

(***************************************************************************)
(* C3 amended: for every Subscribe{stream, from} with stream valid text    *)
(* that contains no colon and from >= 0, parsing                           *)
(* ["subscribe", stream ":" text(from)] returns Ok(Subscribe{stream,from}).*)
(***************************************************************************)
C3_RoundTripColonFreeStream ==
    (Parsed /\ Len(args) = 2 /\ args[1] = STR_subscribe) =>
        \A k \in 1..Len(args[2]) :
            ( /\ args[2][k] = COLON
              /\ ~HasColon(Before(args[2], k))
              /\ IsText(Before(args[2], k))
              /\ IsDecimalOfNonNegative(After(args[2], k)) )
            => /\ result = Ok(Subscribe(Before(args[2], k),
                                        I64(FALSE, DigitValues(After(args[2], k)))))
               /\ args[2] = result.cmd.stream \o <<COLON>>
                               \o DecimalText(result.cmd.from)

C3_Witness ==
    /\ Parsed
    /\ args = <<STR_subscribe, <<115, 58>> \o I64MaxText>>
    /\ result = Ok(Subscribe(<<115>>, I64(FALSE, I64MaxMag)))

(***************************************************************************)
(* C4: for every Publish{stream, event} with stream valid text and event   *)
(* any bytes, parsing ["publish", stream, event] returns Ok(Publish) with  *)
(* the same stream and the same event bytes.                               *)
(***************************************************************************)
C4_PublishRoundTrip ==
    (Parsed /\ Len(args) = 3 /\ args[1] = STR_publish /\ IsText(args[2])) =>
        result = Ok(Publish(args[2], args[3]))

C4_Witness ==
    /\ Parsed
    /\ Len(args) = 3
    /\ args[1] = STR_publish
    /\ IsText(args[2]) /\ HasColon(args[2])
    /\ ~IsText(args[3])
    /\ result.kind = "Ok" /\ result.cmd.event = args[3]

(***************************************************************************)
(* C5: two argument sequences that differ only in the letter case of a     *)
(* first argument spelling "publish" or "subscribe" get the same result.   *)
(***************************************************************************)
C5_CaseInsensitive ==
    (Parsed /\ args # <<>>) =>
        \A w \in {STR_publish, STR_subscribe} :
            IsSpelling(w, args[1]) => result = from_args(<<w>> \o Tail(args))

C5_Witness ==
    /\ Parsed
    /\ args # <<>>
    /\ IsSpelling(STR_subscribe, args[1])
    /\ \E i, j \in 1..Len(args[1]) : args[1][i] < 97 /\ args[1][j] >= 97
    /\ IsSubscribeOk

(***************************************************************************)
(* C6: when from_args returns Subscribe for a target that has a colon,     *)
(* stream is the bytes before the first colon (so it has no colon), from   *)
(* is the base-10 value of all bytes after it, and the target has exactly  *)
(* one colon.                                                              *)
(***************************************************************************)
C6_FirstColonDelimits ==
    (Parsed /\ IsSubscribeOk /\ Len(args) = 2 /\ HasColon(args[2])) =>
        LET k == FirstColon(args[2]) IN
        /\ result.cmd.stream = Before(args[2], k)
        /\ ~HasColon(result.cmd.stream)
        /\ Denotes(After(args[2], k), result.cmd.from)
        /\ ~HasColon(After(args[2], k))

C6_Witness ==
    /\ Parsed
    /\ IsSubscribeOk
    /\ Len(args) = 2
    /\ HasColon(args[2])
    /\ Len(result.cmd.stream) > 1
    /\ Len(result.cmd.from.mag) > 1

(***************************************************************************)
(* C7: arguments_from_resp_value succeeds iff the value is                 *)
(* Array(Some(elements)) with every element BulkString(Some(buffer)); on   *)
(* success the output is the elements' buffers in order; otherwise the     *)
(* call fails and no partial argument list is returned.                    *)
(***************************************************************************)
WellShaped(v) ==
    /\ v.kind = "Array"
    /\ v.opt.some
    /\ \A i \in 1..Len(v.opt.val) :
          v.opt.val[i].kind = "BulkString" /\ v.opt.val[i].opt.some

C7_ExtractIffWellShaped ==
    pc # "recv" =>
        IF WellShaped(value)
        THEN /\ pc \in {"parse", "done"}
             /\ Len(args) = Len(value.opt.val)
             /\ \A i \in 1..Len(args) : args[i] = value.opt.val[i].opt.val
        ELSE /\ pc = "decode_error"
             /\ result = [kind |-> "DecodeError"]
             /\ args = <<>>

C7_Witness ==
    /\ pc = "decode_error"
    /\ value.kind = "Array"
    /\ value.opt.some
    /\ Len(value.opt.val) >= 2
    /\ value.opt.val[1].kind = "BulkString" /\ value.opt.val[1].opt.some
    /\ value.opt.val[2].kind = "BulkString" /\ ~value.opt.val[2].opt.some

(***************************************************************************)
(* C8: a publish with other than two remaining arguments, or a subscribe   *)
(* with other than one, returns InvalidNumberOfArguments{expected: 2},     *)
(* whatever the bytes of the arguments.                                    *)
(***************************************************************************)
C8_ArityCheck ==
    ( /\ Parsed
      /\ args # <<>>
      /\ \/ IsSpelling(STR_publish, args[1]) /\ Len(args) - 1 # 2
         \/ IsSpelling(STR_subscribe, args[1]) /\ Len(args) - 1 # 1 )
    => result = Err(InvalidNumberOfArguments(2))

C8_Witness ==
    /\ Parsed
    /\ Len(args) = 3
    /\ IsSpelling(STR_subscribe, args[1])
    /\ ~IsText(args[2])
    /\ result = Err(InvalidNumberOfArguments(2))

(***************************************************************************)
(* C9: a subscribe whose single target has no colon and is valid text      *)
(* returns Subscribe with stream the whole target and from -1.             *)
(***************************************************************************)
C9_NoColonSubscribesTail ==
    ( /\ Parsed
      /\ Len(args) = 2
      /\ IsSpelling(STR_subscribe, args[1])
      /\ ~HasColon(args[2])
      /\ IsText(args[2]) )
    => result = Ok(Subscribe(args[2], I64(TRUE, <<1>>)))

C9_Witness ==
    /\ Parsed
    /\ Len(args) = 2
    /\ IsSpelling(STR_subscribe, args[1])
    /\ args[2] = <<195, 169>>
    /\ result = Ok(Subscribe(<<195, 169>>, I64(TRUE, <<1>>)))

(***************************************************************************)
(* C10: the error kind follows a fixed precedence: no argument gives       *)
(* MissingCommandName; else a name that is not text gives                  *)
(* InvalidUtf8String; else a name other than publish/subscribe gives       *)
(* CommandNotFound; else a wrong count gives InvalidNumberOfArguments even *)
(* when an argument is not text; only with the right count is the stream   *)
(* name checked for text, and for subscribe before the offset text.        *)
(***************************************************************************)
\* the stream part of a subscribe target
StreamPart(t) == IF HasColon(t) THEN Before(t, FirstColon(t)) ELSE t

C10_ErrorPrecedence ==
    Parsed =>
      IF args = <<>> THEN result = Err(MissingCommandName)
      ELSE IF ~IsText(args[1])
           THEN result = Err(InvalidUtf8String(from_utf8(args[1])))
      ELSE IF ~IsCommandName(args[1]) THEN result = Err(CommandNotFound)
      ELSE IF Len(args) - 1 # (IF IsSpelling(STR_publish, args[1]) THEN 2 ELSE 1)
           THEN result = Err(InvalidNumberOfArguments(2))
      ELSE IF IsSpelling(STR_publish, args[1])
           THEN ~IsText(args[2]) =>
                    result = Err(InvalidUtf8String(from_utf8(args[2])))
      ELSE ~IsText(StreamPart(args[2])) =>
               result = Err(InvalidUtf8String(from_utf8(StreamPart(args[2]))))

C10_Witness ==
    /\ Parsed
    /\ Len(args) = 2
    /\ IsSpelling(STR_subscribe, args[1])
    /\ HasColon(args[2])
    /\ ~IsText(StreamPart(args[2]))
    /\ ~from_str_radix(After(args[2], FirstColon(args[2]))).ok
    /\ result.kind = "Err" /\ result.error.name = "InvalidUtf8String"

====
